---- MODULE Spec2Model ----
(***************************************************************************)
(* State-machine model of pkg/device_plugin/server/server.go: the device   *)
(* registry (devices, nextDevice), the filesystem watcher goroutine, the   *)
(* ListAndWatch streaming sessions that share the unbuffered notify        *)
(* channel, the unary RPCs, and the crash-loop of the goroutine that runs  *)
(* grpc Serve.                                                             *)
(***************************************************************************)
EXTENDS Integers, Sequences, FiniteSets, TLC

\* Capacity of the registry.  The source sets 40 (server.go:30); the model
\* checks the same algorithm at a small capacity so that a snapshot can be
\* read device by device while the watcher runs.
TotalDevicesCount == 3

\* Number of filesystem events the watcher takes from w.Events in one run
\* with two streaming sessions.
MaxEvents == 2

\* Number of filesystem events the watcher takes from w.Events in one run
\* with two streaming sessions under fair scheduling.
MaxEventsFair == 1

\* Number of filesystem events the watcher takes from w.Events in one run
\* with one streaming session.
MaxEventsOne == 4

\* Number of filesystem events the watcher takes from w.Events in one run
\* with one streaming session under fair scheduling.
MaxEventsFairOne == 2

\* Number of filesystem events the watcher takes from w.Events in one run
\* with one streaming session and the unary RPCs.
MaxEventsRpc == 2


\* Number of clock ticks in one run of the serve loop.
MaxTicks == 8

\* Seconds that pass in one clock tick.
ClockStep == 1200

\* The window of the serve loop, in seconds (server.go:101).
CrashWindowSeconds == 3600

\* The number of restarts the serve loop compares against (server.go:96).
MaxRestartCount == 5

\* Largest number of container requests in one AllocateRequest.
MaxContainers == 2

\* Largest number of device ids in one container request.
MaxDeviceIDs == 2

\* No unary RPC was called yet.
NoRpc == [name |-> "none", req |-> <<>>, resp |-> [type |-> "none"], err |-> "nil"]

\* The unary RPC name was called with request req; its handler has not run.
Called(name, req) ==
    [name |-> name, req |-> req, resp |-> [type |-> "none"], err |-> "pending"]

Healthy == "Healthy"
Unhealthy == "Unhealthy"

Indices == 0 .. (TotalDevicesCount - 1)
\* The ListAndWatch calls (streaming sessions) of one run.
Sessions == {1, 2}

\* The directory may hold more entries than there are devices.
DirCounts == 0 .. (TotalDevicesCount + 1)

\* fsnotify.Op is a bit set; an event carries the set of its bits.
EventOps == { {"Create"}, {"Remove"}, {"Write"}, {"Create", "Remove"} }

\* A slot of make([]*pluginapi.Device, TotalDevicesCount) before listDevice.
NilDevice == [ID |-> "<nil>", Health |-> "<nil>"]

VARIABLES
    dirLen,         \* len(dir): entries of the device directory when Run lists it
    runPc,          \* position of Run
    proc,           \* "up", "fatal" (log.Fatal) or "panic" (runtime panic)
    devices,        \* s.devices
    nextDevice,     \* s.nextDevice
    cancelled,      \* s.ctx is done
    wpc,            \* position of the watcher goroutine
    ev,             \* the Op of the event the watcher is handling
    nev,            \* history: number of events taken from w.Events
    reg0,           \* history: nextDevice and devices as listDevice left them
    shape,          \* history: the events taken so far, as creates then removes
    pre,            \* history: nextDevice and devices when the event was taken
    applied,        \* history: number of events whose registry writes are complete
    wmain,          \* position of watchDevice itself: "off", "add", "wait", "err"
    wcase,          \* history: the case the loop's select took since the last event
    offered,        \* history: number of times the watcher reached s.notify <- true
    spc,            \* position of each ListAndWatch session
    buf,            \* devices the session's latest Send has read so far
    bufMin,         \* history: least value of applied seen by the reads of buf
    sent,           \* whether the session's latest Send returned nil
    nsent,          \* number of messages each session sent
    wake,           \* history: nev when the session last received from notify
    ret,            \* return value of each session: "none", "nil", "err"
    nrecv,          \* history: number of receives from s.notify by each session
    nupd,           \* history: number of update Sends of each session that returned
    rpc,            \* the latest unary RPC: its name, request, response and error
    servePc,        \* position of the serve goroutine
    restartCount,   \* restartCount of the serve goroutine
    lastCrashTime,  \* lastCrashTime of the serve goroutine, in seconds
    now,            \* the clock, in seconds
    ncrash          \* history: number of times Serve returned an error

regVars == <<devices, nextDevice>>
watchVars == <<wpc, ev, nev, reg0, shape, pre, applied>>
sessVars == <<spc, buf, bufMin, sent, nsent, wake, ret>>
serveVars == <<servePc, restartCount, lastCrashTime, now>>
loopVars == <<wmain, wcase, offered>>
countVars == <<nrecv, nupd>>
vars == <<dirLen, runPc, proc, cancelled, regVars, watchVars, sessVars, serveVars,
          loopVars, countVars, rpc, ncrash>>

----------------------------------------------------------------------------
\* strconv.Itoa on a non-negative int.
Digits == <<"0", "1", "2", "3", "4", "5", "6", "7", "8", "9">>

RECURSIVE Itoa(_)
Itoa(i) == IF i < 10 THEN Digits[i + 1]
           ELSE Itoa(i \div 10) \o Digits[(i % 10) + 1]

\* event.Op&fsnotify.Create == fsnotify.Create
IsCreate(op) == "Create" \in op

\* the else-if branch: event.Op&fsnotify.Remove == fsnotify.Remove
IsRemove(op) == (~IsCreate(op)) /\ "Remove" \in op

----------------------------------------------------------------------------
\* NewMultusNicServer
Init ==
    /\ dirLen \in DirCounts
    /\ runPc = "start"
    /\ proc = "up"
    /\ devices = [i \in Indices |-> NilDevice]
    /\ nextDevice = 0
    /\ cancelled = FALSE
    /\ wpc = "off"
    /\ ev = {}
    /\ nev = 0
    /\ reg0 = [next |-> 0, devices |-> [i \in Indices |-> NilDevice]]
    /\ shape = [ups |-> 0, downs |-> 0, ok |-> TRUE]
    /\ pre = [next |-> 0, devices |-> [i \in Indices |-> NilDevice]]
    /\ applied = 0
    /\ wmain = "off"
    /\ wcase = "none"
    /\ offered = 0
    /\ spc = [s \in Sessions |-> "none"]
    /\ buf = [s \in Sessions |-> <<>>]
    /\ bufMin = [s \in Sessions |-> 0]
    /\ sent = [s \in Sessions |-> FALSE]
    /\ nsent = [s \in Sessions |-> 0]
    /\ wake = [s \in Sessions |-> 0]
    /\ ret = [s \in Sessions |-> "none"]
    /\ nrecv = [s \in Sessions |-> 0]
    /\ nupd = [s \in Sessions |-> 0]
    /\ rpc = NoRpc
    /\ servePc = "off"
    /\ restartCount = 0
    /\ lastCrashTime = 0
    /\ now = 0
    /\ ncrash = 0

----------------------------------------------------------------------------
\* listDevice, line 214: s.nextDevice for a directory of c entries.
listDeviceNext(c) == c

\* listDevice, lines 216-226: s.devices for a directory of c entries.
listDeviceDevices(c) ==
    [i \in Indices |->
        [ID |-> Itoa(i),
         Health |-> IF i < listDeviceNext(c) THEN Unhealthy ELSE Healthy]]

\* Run, lines 61-64: listDevice succeeds.
RunListDevice ==
    /\ proc = "up" /\ runPc = "start"
    /\ nextDevice' = listDeviceNext(dirLen)
    /\ devices' = listDeviceDevices(dirLen)
    /\ reg0' = [next |-> nextDevice', devices |-> devices']
    /\ pre' = [next |-> nextDevice', devices |-> devices']
    /\ runPc' = "listed"
    /\ UNCHANGED <<dirLen, rpc, ncrash, proc, cancelled, wpc, ev, nev, shape,
                   applied,
                   loopVars, sessVars, countVars, serveVars>>

\* Run, lines 61-64: ReadDir fails and log.Fatalf ends the process.
RunListDeviceFail ==
    /\ proc = "up" /\ runPc = "start"
    /\ proc' = "fatal"
    /\ UNCHANGED <<dirLen, rpc, ncrash, runPc, cancelled, regVars, watchVars,
                   loopVars, sessVars, countVars, serveVars>>

\* Run, lines 66-71, and watchDevice, lines 231-276: the watchDevice
\* goroutine starts, fsnotify.NewWatcher succeeds and the loop goroutine
\* enters its select; watchDevice goes on to w.Add.
RunStartWatcher ==
    /\ proc = "up" /\ runPc = "listed"
    /\ runPc' = "watching"
    /\ wpc' = "select"
    /\ wmain' = "add"
    /\ UNCHANGED <<dirLen, rpc, ncrash, proc, cancelled, regVars, ev, nev,
                   reg0, shape, pre,
                   applied, wcase, offered, sessVars, countVars, serveVars>>

\* Run, lines 66-71, and watchDevice, lines 231-235: fsnotify.NewWatcher
\* fails, watchDevice returns the error and no loop goroutine exists.
RunStartWatcherFail ==
    /\ proc = "up" /\ runPc = "listed"
    /\ runPc' = "watching"
    /\ wmain' = "err"
    /\ UNCHANGED <<dirLen, rpc, ncrash, proc, cancelled, regVars, watchVars,
                   wcase,
                   offered, sessVars, countVars, serveVars>>

\* Run, lines 73-82: unlink or listen fails and Run returns the error.
RunListenFail ==
    /\ proc = "up" /\ runPc = "watching"
    /\ runPc' = "failed"
    /\ UNCHANGED <<dirLen, rpc, ncrash, proc, cancelled, regVars, watchVars,
                   loopVars, sessVars, countVars, serveVars>>

\* Run, lines 73-89: the socket is bound and the serve goroutine calls Serve.
RunServe ==
    /\ proc = "up" /\ runPc = "watching"
    /\ runPc' = "serving"
    /\ servePc' = "serve"
    /\ lastCrashTime' = now
    /\ restartCount' = 0
    /\ UNCHANGED <<dirLen, rpc, ncrash, proc, cancelled, regVars, watchVars,
                   loopVars, sessVars, countVars, now>>

\* The grpc server accepts RPCs once Serve runs.
Serving == proc = "up" /\ runPc = "serving" /\ servePc = "serve"

\* s.cancel is called (the CancelFunc made by NewMultusNicServer).
Cancel ==
    /\ proc = "up" /\ ~cancelled
    /\ cancelled' = TRUE
    /\ UNCHANGED <<dirLen, rpc, ncrash, runPc, proc, regVars, watchVars,
                   loopVars, sessVars, countVars, serveVars>>

----------------------------------------------------------------------------
\* watchDevice, the goroutine's loop.

\* line 252: a create event is applied only below capacity.
CreateAccepted(w) == w < TotalDevicesCount

\* line 258: a remove event is applied only above zero.
RemoveAccepted(w) == w > 0

\* line 253: the device a create event writes.
CreateTarget(w) == w

\* A remove that writes the device at the watermark, not the one below it.
RemoveTargetAtWatermark(w) == w

\* line 259: the device a remove event writes.
RemoveTarget(w) == w - 1

\* lines 254 and 260: the watermark after the write.
CreateNext(w) == w + 1
RemoveNext(w) == w - 1

\* lines 256 and 262: where a create or remove event goes when its guard
\* is false: the send on s.notify is outside the if.
AfterIgnored == "notify"

\* A create that sends on s.notify right after the health write.
AfterCreateWriteNotify == "notify"

\* lines 253-254: after the health write of a create comes s.nextDevice++.
AfterCreateWrite == "create_inc"

\* A send on a buffered s.notify: the watcher goes on without a receiver.
NotifySendBuffered == "select"

\* lines 51, 256 and 262: s.notify is made without a buffer and the send
\* has no default case, so the watcher stays at the send until a session
\* receives.
NotifySend == "notify"

SetHealth(devs, i, h) == [devs EXCEPT ![i] = [@ EXCEPT !.Health = h]]

\* history: the events taken so far are creates followed by removes.
ShapeAfter(sh, op) ==
    IF ~sh.ok THEN sh
    ELSE IF IsCreate(op) THEN
       IF sh.downs = 0 THEN [sh EXCEPT !.ups = @ + 1]
       ELSE [ups |-> 0, downs |-> 0, ok |-> FALSE]
    ELSE IF IsRemove(op) THEN
       [sh EXCEPT !.downs = @ + 1]
    ELSE
       [ups |-> 0, downs |-> 0, ok |-> FALSE]

\* lines 246-263, up to the first write: an event is taken from w.Events.
WatchEvent(op) ==
    /\ proc = "up" /\ wpc = "select" /\ wmain = "wait"
    /\ nev' = nev + 1
    /\ shape' = ShapeAfter(shape, op)
    /\ pre' = [next |-> nextDevice, devices |-> devices]
    /\ ev' = IF IsCreate(op) \/ IsRemove(op) THEN op ELSE {}
    /\ wcase' = "none"
    /\ UNCHANGED <<dirLen, rpc, ncrash, runPc, cancelled, nextDevice, reg0,
                   wmain,
                   sessVars, countVars, serveVars>>
    /\ IF IsCreate(op) THEN
          IF CreateAccepted(nextDevice) THEN
             /\ devices' = SetHealth(devices, CreateTarget(nextDevice), Unhealthy)
             /\ wpc' = AfterCreateWrite
             /\ UNCHANGED <<proc, applied>>
          ELSE
             /\ wpc' = AfterIgnored
             /\ applied' = nev'
             /\ UNCHANGED <<proc, devices>>
       ELSE IF IsRemove(op) THEN
          IF RemoveAccepted(nextDevice) THEN
             IF RemoveTarget(nextDevice) \in Indices THEN
                /\ devices' = SetHealth(devices, RemoveTarget(nextDevice), Healthy)
                /\ wpc' = "remove_dec"
                /\ UNCHANGED <<proc, applied>>
             ELSE
                \* index out of range: the runtime panics and the process dies
                /\ proc' = "panic"
                /\ wpc' = "panicked"
                /\ UNCHANGED <<devices, applied>>
          ELSE
             /\ wpc' = AfterIgnored
             /\ applied' = nev'
             /\ UNCHANGED <<proc, devices>>
       ELSE
          \* neither bit: only the log lines
          /\ applied' = nev'
          /\ UNCHANGED <<proc, devices, wpc>>
    \* the event has reached s.notify <- true when the watcher is at the send
    /\ offered' = IF wpc' = "notify" THEN offered + 1 ELSE offered

\* line 254: s.nextDevice++, then the watcher reaches s.notify <- true.
WatchCreateInc ==
    /\ proc = "up" /\ wpc = "create_inc"
    /\ nextDevice' = CreateNext(nextDevice)
    /\ wpc' = NotifySend
    /\ offered' = offered + 1
    /\ applied' = nev
    /\ UNCHANGED <<dirLen, rpc, ncrash, runPc, proc, cancelled, devices, ev,
                   nev, reg0,
                   shape, pre, wmain, wcase, sessVars, countVars, serveVars>>

\* line 260: s.nextDevice--, then the watcher reaches s.notify <- true.
WatchRemoveDec ==
    /\ proc = "up" /\ wpc = "remove_dec"
    /\ nextDevice' = RemoveNext(nextDevice)
    /\ wpc' = NotifySend
    /\ offered' = offered + 1
    /\ applied' = nev
    /\ UNCHANGED <<dirLen, rpc, ncrash, runPc, proc, cancelled, devices, ev,
                   nev, reg0,
                   shape, pre, wmain, wcase, sessVars, countVars, serveVars>>

\* An error case that leaves the loop, as the closed w.Errors does.
AfterErrorReturn == "done_send"

\* lines 266-270: where the loop goes after an error from w.Errors: the
\* case only logs, and the for loop selects again.
AfterError == "select"

\* lines 266-270: an error from w.Errors is logged.
WatchError ==
    /\ proc = "up" /\ wpc = "select" /\ wmain \in {"add", "wait"}
    /\ wpc' = AfterError
    /\ wcase' = "error"
    /\ UNCHANGED <<dirLen, rpc, ncrash, runPc, proc, cancelled, regVars, ev,
                   nev, reg0,
                   shape, pre, applied, wmain, offered, sessVars, countVars, serveVars>>

\* lines 272-273: where the loop goes when s.ctx is done: break leaves the
\* select statement, not the for loop.
AfterWatchCtxDone == "select"

\* lines 272-273: the loop's select takes the case of s.ctx.Done().
WatchCtxDone ==
    /\ proc = "up" /\ wpc = "select" /\ cancelled
    /\ wpc' = AfterWatchCtxDone
    /\ wcase' = "ctx"
    /\ UNCHANGED <<dirLen, rpc, ncrash, runPc, proc, cancelled, regVars, ev,
                   nev, reg0,
                   shape, pre, applied, wmain, offered, sessVars, countVars, serveVars>>

\* lines 277-281: w.Add returns.  When it fails watchDevice returns the
\* error and its deferred w.Close() closes w.Events and w.Errors.
WatchAdd(ok) ==
    /\ proc = "up" /\ wmain = "add"
    /\ wmain' = IF ok THEN "wait" ELSE "err"
    /\ UNCHANGED <<dirLen, rpc, ncrash, runPc, proc, cancelled, regVars,
                   watchVars,
                   wcase, offered, sessVars, countVars, serveVars>>

\* lines 246-249: the receive from the closed w.Events gives ok = false and
\* the loop continues.
WatchEventsClosed ==
    /\ proc = "up" /\ wpc = "select" /\ wmain = "err"
    /\ wcase' = "closed"
    /\ UNCHANGED <<dirLen, rpc, ncrash, runPc, proc, cancelled, regVars,
                   watchVars,
                   wmain, offered, sessVars, countVars, serveVars>>

\* lines 240-243 and 266-269: the receive from the closed w.Errors gives
\* ok = false and the goroutine returns; its deferred function sends on
\* done, which watchDevice, having returned, no longer receives.
WatchErrorsClosed ==
    /\ proc = "up" /\ wpc = "select" /\ wmain = "err"
    /\ wpc' = "done_send"
    /\ wcase' = "none"
    /\ UNCHANGED <<dirLen, rpc, ncrash, runPc, proc, cancelled, regVars, ev,
                   nev, reg0,
                   shape, pre, applied, wmain, offered, sessVars, countVars, serveVars>>

----------------------------------------------------------------------------
\* ListAndWatch, one streaming session per call.

Min(a, b) == IF a < b THEN a ELSE b

\* A ListAndWatch that enters its loop without the initial Send.
AfterCallWithoutInitialSend == "waiting"

\* line 160: where a session goes when the RPC is called: to the Send of
\* the initial snapshot (line 162).
AfterCall == "send_init"

\* lines 163-166: what a failed Send of the initial snapshot does.
AfterInitialSendError == "returned"

\* line 174: the result of the Send of an update is dropped, so a failed
\* Send goes back to the select like a successful one.
AfterUpdateSendError == "waiting"

\* A ListAndWatch that builds its response once and sends it again.
UpdateBufferReused(old) == old

\* A notification that stays in the channel after a session received it.
AfterReceiveStillOffered == "notify"

\* lines 256-257 and 262-263: the watcher's send completes when a session
\* receives; the watcher logs and goes back to its select.
AfterReceive == "select"

\* lines 172-174: what the Send after a notification starts from: a new
\* ListAndWatchResponse over s.devices, nothing read yet (old holds the
\* devices the session's previous Send read).
UpdateBuffer(old) == <<>>

\* line 160: kubelet calls ListAndWatch.  Sessions are interchangeable, so
\* they are started in the order of their numbers.
ListAndWatchCall(s) ==
    /\ Serving
    /\ spc[s] = "none"
    /\ \A t \in Sessions : t < s => spc[t] # "none"
    /\ spc' = [spc EXCEPT ![s] = AfterCall]
    /\ buf' = [buf EXCEPT ![s] = <<>>]
    /\ UNCHANGED <<dirLen, rpc, ncrash, runPc, proc, cancelled, regVars,
                   watchVars,
                   loopVars, bufMin, sent, nsent, wake, ret, countVars, serveVars>>

\* lines 162 and 174: Send marshals s.devices, reading one device after
\* the other while the watcher may write.
ReadDevice(s) ==
    /\ proc = "up"
    /\ spc[s] \in {"send_init", "send_upd"}
    /\ Len(buf[s]) < TotalDevicesCount
    /\ buf' = [buf EXCEPT ![s] = Append(@, devices[Len(@)])]
    /\ bufMin' = [bufMin EXCEPT ![s] =
                     IF Len(buf[s]) = 0 THEN applied ELSE Min(@, applied)]
    /\ UNCHANGED <<dirLen, rpc, ncrash, runPc, proc, cancelled, regVars,
                   watchVars,
                   loopVars, spc, sent, nsent, wake, ret, countVars, serveVars>>

\* lines 162-166: the Send of the initial snapshot returns.
SendInitial(s, ok) ==
    /\ proc = "up"
    /\ spc[s] = "send_init"
    /\ Len(buf[s]) = TotalDevicesCount
    /\ IF ok THEN
          /\ spc' = [spc EXCEPT ![s] = "waiting"]
          /\ sent' = [sent EXCEPT ![s] = TRUE]
          /\ nsent' = [nsent EXCEPT ![s] = @ + 1]
          /\ UNCHANGED ret
       ELSE
          /\ spc' = [spc EXCEPT ![s] = AfterInitialSendError]
          /\ ret' = [ret EXCEPT ![s] =
                        IF AfterInitialSendError = "returned" THEN "err" ELSE @]
          /\ UNCHANGED <<sent, nsent>>
    /\ UNCHANGED <<dirLen, rpc, ncrash, runPc, proc, cancelled, regVars,
                   watchVars,
                   loopVars, buf, bufMin, wake, countVars, serveVars>>

\* lines 172-174: a session in the select receives from s.notify; this is
\* also the completion of the watcher's s.notify <- true (lines 256, 262).
RecvNotify(s) ==
    /\ proc = "up"
    /\ spc[s] = "waiting"
    /\ wpc = "notify"
    /\ wpc' = AfterReceive
    /\ spc' = [spc EXCEPT ![s] = "send_upd"]
    /\ buf' = [buf EXCEPT ![s] = UpdateBuffer(@)]
    /\ sent' = [sent EXCEPT ![s] = FALSE]
    /\ wake' = [wake EXCEPT ![s] = nev]
    /\ nrecv' = [nrecv EXCEPT ![s] = @ + 1]
    /\ ev' = {}
    /\ pre' = [next |-> nextDevice, devices |-> devices]
    /\ UNCHANGED <<dirLen, rpc, ncrash, runPc, proc, cancelled, regVars, nev,
                   reg0, shape,
                   applied, loopVars, bufMin, nsent, ret, nupd, serveVars>>

\* line 174: the Send of an update returns.
SendUpdate(s, ok) ==
    /\ proc = "up"
    /\ spc[s] = "send_upd"
    /\ Len(buf[s]) = TotalDevicesCount
    /\ IF ok THEN
          /\ spc' = [spc EXCEPT ![s] = "waiting"]
          /\ sent' = [sent EXCEPT ![s] = TRUE]
          /\ nsent' = [nsent EXCEPT ![s] = @ + 1]
          /\ UNCHANGED ret
       ELSE
          /\ spc' = [spc EXCEPT ![s] = AfterUpdateSendError]
          /\ ret' = [ret EXCEPT ![s] =
                        IF AfterUpdateSendError = "returned" THEN "err" ELSE @]
          /\ UNCHANGED <<sent, nsent>>
    /\ nupd' = [nupd EXCEPT ![s] = @ + 1]
    /\ UNCHANGED <<dirLen, rpc, ncrash, runPc, proc, cancelled, regVars,
                   watchVars,
                   loopVars, buf, bufMin, wake, nrecv, serveVars>>

\* A ctx.Done case that only breaks out of the select, as the watcher's does.
AfterCtxDoneBreak == "waiting"

\* lines 175-177: where a session that sees s.ctx.Done() goes.
AfterCtxDone == "returned"

\* lines 175-177: a session in the select sees the context done.
ListAndWatchCtxDone(s) ==
    /\ proc = "up"
    /\ spc[s] = "waiting"
    /\ cancelled
    /\ spc' = [spc EXCEPT ![s] = AfterCtxDone]
    /\ ret' = [ret EXCEPT ![s] = IF AfterCtxDone = "returned" THEN "nil" ELSE @]
    /\ UNCHANGED <<dirLen, rpc, ncrash, runPc, proc, cancelled, regVars,
                   watchVars,
                   loopVars, buf, bufMin, sent, nsent, wake, countVars, serveVars>>

----------------------------------------------------------------------------
\* The unary RPCs.

\* strings.Join(elems, sep): the first element, then sep and the next
\* element for each of the others, and "" for no elements.
RECURSIVE JoinRest(_, _, _, _)
JoinRest(acc, elems, sep, k) ==
    IF k > Len(elems) THEN acc
    ELSE JoinRest(acc \o sep \o elems[k], elems, sep, k + 1)

Join(elems, sep) ==
    IF Len(elems) = 0 THEN "" ELSE JoinRest(elems[1], elems, sep, 2)

\* lines 190-194: the ContainerAllocateResponse built for one request.
ContainerResponse(req) ==
    [Envs |-> [MULTUS_NICS |-> Join(req.DevicesIDs, ",")]]

\* lines 188-196: the loop over reqs.ContainerRequests from the k-th on,
\* appending to resps.ContainerResponses.
RECURSIVE AllocateLoop(_, _, _)
AllocateLoop(resps, reqs, k) ==
    IF k > Len(reqs) THEN resps
    ELSE AllocateLoop(Append(resps, ContainerResponse(reqs[k])), reqs, k + 1)

\* An Allocate that puts each new response before the earlier ones.
RECURSIVE AllocateNewestFirst(_)
AllocateNewestFirst(reqs) ==
    IF Len(reqs) = 0 THEN <<>>
    ELSE Append(AllocateNewestFirst(Tail(reqs)), ContainerResponse(Head(reqs)))

\* lines 187-197: resps.ContainerResponses for the container requests reqs.
AllocateResponses(reqs) == AllocateLoop(<<>>, reqs, 1)

\* An Allocate that marks the devices it hands out Unhealthy.
AllocateMarksUnhealthy(devs, reqs) ==
    [i \in DOMAIN devs |->
        IF \E k \in 1 .. Len(reqs) : \E j \in 1 .. Len(reqs[k].DevicesIDs) :
               reqs[k].DevicesIDs[j] = devs[i].ID
        THEN [devs[i] EXCEPT !.Health = Unhealthy]
        ELSE devs[i]]

\* lines 185-198: Allocate reads its request only; s.devices after the call.
DevicesAfterAllocate(devs, reqs) == devs

\* The grpc server hands a call of the unary RPC name to its handler.
RpcCall(name, req) ==
    /\ Serving
    /\ rpc.err # "pending"
    /\ rpc' = Called(name, req)
    /\ UNCHANGED <<dirLen, ncrash, runPc, proc, cancelled, regVars, watchVars,
                   loopVars, sessVars, countVars, serveVars>>

\* lines 146-149
GetDevicePluginOptions ==
    /\ Serving
    /\ rpc.name = "GetDevicePluginOptions" /\ rpc.err = "pending"
    /\ rpc' = [rpc EXCEPT
                 !.resp = [type |-> "DevicePluginOptions", PreStartRequired |-> TRUE],
                 !.err = "nil"]
    /\ UNCHANGED <<dirLen, ncrash, runPc, proc, cancelled, regVars, watchVars,
                   loopVars, sessVars, countVars, serveVars>>

\* lines 152-155
GetPreferredAllocation ==
    /\ Serving
    /\ rpc.name = "GetPreferredAllocation" /\ rpc.err = "pending"
    /\ rpc' = [rpc EXCEPT
                 !.resp = [type |-> "PreferredAllocationResponse",
                           ContainerResponses |-> <<>>],
                 !.err = "nil"]
    /\ UNCHANGED <<dirLen, ncrash, runPc, proc, cancelled, regVars, watchVars,
                   loopVars, sessVars, countVars, serveVars>>

\* lines 185-198
Allocate ==
    /\ Serving
    /\ rpc.name = "Allocate" /\ rpc.err = "pending"
    /\ rpc' = [rpc EXCEPT
                 !.resp = [type |-> "AllocateResponse",
                           ContainerResponses |-> AllocateResponses(rpc.req)],
                 !.err = "nil"]
    /\ devices' = DevicesAfterAllocate(devices, rpc.req)
    /\ UNCHANGED <<dirLen, ncrash, runPc, proc, cancelled, nextDevice,
                   watchVars,
                   loopVars, sessVars, countVars, serveVars>>

\* lines 203-206
PreStartContainer ==
    /\ Serving
    /\ rpc.name = "PreStartContainer" /\ rpc.err = "pending"
    /\ rpc' = [rpc EXCEPT !.resp = [type |-> "PreStartContainerResponse"],
                          !.err = "nil"]
    /\ UNCHANGED <<dirLen, ncrash, runPc, proc, cancelled, regVars, watchVars,
                   loopVars, sessVars, countVars, serveVars>>

\* The sequences over S of length at most n.
SeqsUpTo(S, n) == UNION {[1 .. k -> S] : k \in 0 .. n}

\* The ids kubelet learnt from ListAndWatch.
DeviceIDs == {Itoa(i) : i \in Indices}

\* The container requests and the AllocateRequests kubelet may send.
ContainerRequests ==
    {[DevicesIDs |-> ids] : ids \in SeqsUpTo(DeviceIDs, MaxDeviceIDs)}
AllocateRequests == SeqsUpTo(ContainerRequests, MaxContainers)

\* The calls of the unary RPCs kubelet may make.
UnaryCalls ==
    {Called("Allocate", reqs) : reqs \in AllocateRequests}
        \cup {Called(name, <<>>) : name \in {"GetDevicePluginOptions",
                  "GetPreferredAllocation", "PreStartContainer"}}

----------------------------------------------------------------------------
\* Run, lines 84-107: the goroutine that runs Serve.

\* line 96: the test made before the counter is updated.
CrashIsFatal(count) == count > MaxRestartCount

\* lines 99-105: the counter after a crash, elapsed seconds after the last.
RestartCountAfter(count, elapsed) ==
    IF elapsed > CrashWindowSeconds THEN 1 ELSE count + 1

\* lines 89-92: Serve returns nil and the loop ends.
ServeReturnsNil ==
    /\ proc = "up" /\ servePc = "serve"
    /\ servePc' = "exited"
    /\ UNCHANGED <<dirLen, rpc, ncrash, runPc, proc, cancelled, regVars,
                   watchVars, loopVars, sessVars, countVars,
                   restartCount, lastCrashTime, now>>

\* lines 89-105: Serve returns an error.
ServeCrash ==
    /\ proc = "up" /\ servePc = "serve"
    /\ IF CrashIsFatal(restartCount) THEN
          /\ proc' = "fatal"
          /\ servePc' = "fatal"
          /\ UNCHANGED <<restartCount, lastCrashTime>>
       ELSE
          /\ restartCount' = RestartCountAfter(restartCount, now - lastCrashTime)
          /\ lastCrashTime' = now
          /\ UNCHANGED <<proc, servePc>>
    /\ ncrash' = ncrash + 1
    /\ UNCHANGED <<dirLen, rpc, runPc, cancelled, regVars, watchVars,
                   loopVars, sessVars, countVars, now>>

\* time passes
Tick ==
    /\ proc = "up" /\ servePc = "serve"
    /\ now < MaxTicks * ClockStep
    /\ now' = now + ClockStep
    /\ UNCHANGED <<dirLen, rpc, ncrash, runPc, proc, cancelled, regVars,
                   watchVars, loopVars, sessVars, countVars,
                   servePc, restartCount, lastCrashTime>>

----------------------------------------------------------------------------
\* Run and the watcher, with at most maxEvents events from w.Events and no
\* error from w.Errors.
RunAndWatch(maxEvents) ==
    \/ RunListDevice
    \/ RunListDeviceFail
    \/ RunStartWatcher
    \/ RunStartWatcherFail
    \/ RunListenFail
    \/ RunServe
    \/ Cancel
    \/ \E op \in EventOps : nev < maxEvents /\ WatchEvent(op)
    \/ WatchCreateInc
    \/ WatchRemoveDec
    \/ WatchCtxDone
    \/ \E ok \in BOOLEAN : WatchAdd(ok)
    \/ WatchEventsClosed
    \/ WatchErrorsClosed

\* The steps of streaming session s.
Session(s) ==
    \/ ListAndWatchCall(s)
    \/ ReadDevice(s)
    \/ \E ok \in BOOLEAN : SendInitial(s, ok)
    \/ RecvNotify(s)
    \/ \E ok \in BOOLEAN : SendUpdate(s, ok)
    \/ ListAndWatchCtxDone(s)

\* The plugin with two streaming sessions, Serve running.
Next ==
    \/ RunAndWatch(MaxEvents)
    \/ \E s \in Sessions : Session(s)

Spec == Init /\ [][Next]_vars

\* The scheduler runs every goroutine that can take a step, and a select
\* with several ready cases picks among them at random, so a case that is
\* ready again and again is taken.
Fairness ==
    /\ \A s \in Sessions : WF_vars(ReadDevice(s))
    /\ \A s \in Sessions : WF_vars(\E ok \in BOOLEAN : SendInitial(s, ok))
    /\ \A s \in Sessions : WF_vars(\E ok \in BOOLEAN : SendUpdate(s, ok))
    /\ \A s \in Sessions : SF_vars(ListAndWatchCtxDone(s))

\* The plugin with two streaming sessions under fair scheduling.
NextFair ==
    \/ RunAndWatch(MaxEventsFair)
    \/ \E s \in Sessions : Session(s)

FairSpec == Init /\ [][NextFair]_vars /\ Fairness

\* The plugin with one streaming session, Serve running, and errors from
\* w.Errors.
NextOne ==
    \/ RunAndWatch(MaxEventsOne)
    \/ WatchError
    \/ Session(1)

SpecOne == Init /\ [][NextOne]_vars

\* The scheduler runs the watcher goroutine whenever it can take a step; its
\* send on s.notify completes when a session stays ready to receive.
WatchFairness ==
    /\ WF_vars(WatchCreateInc)
    /\ WF_vars(WatchRemoveDec)
    /\ WF_vars(WatchCtxDone)
    /\ WF_vars(WatchEventsClosed)
    /\ WF_vars(WatchErrorsClosed)
    /\ \A s \in Sessions : WF_vars(RecvNotify(s))

\* The plugin with one streaming session under fair scheduling.
NextFairOne ==
    \/ RunAndWatch(MaxEventsFairOne)
    \/ WatchError
    \/ Session(1)

FairSpecOne == Init /\ [][NextFairOne]_vars /\ Fairness /\ WatchFairness

\* The state when the serve goroutine calls Serve for the first time, on an
\* empty directory with the watcher in its loop.
InitServing ==
    /\ dirLen = 0
    /\ runPc = "serving"
    /\ proc = "up"
    /\ devices = listDeviceDevices(0)
    /\ nextDevice = listDeviceNext(0)
    /\ cancelled = FALSE
    /\ wpc = "select"
    /\ ev = {}
    /\ nev = 0
    /\ reg0 = [next |-> listDeviceNext(0), devices |-> listDeviceDevices(0)]
    /\ shape = [ups |-> 0, downs |-> 0, ok |-> TRUE]
    /\ pre = [next |-> listDeviceNext(0), devices |-> listDeviceDevices(0)]
    /\ applied = 0
    /\ wmain = "wait"
    /\ wcase = "none"
    /\ offered = 0
    /\ spc = [s \in Sessions |-> "none"]
    /\ buf = [s \in Sessions |-> <<>>]
    /\ bufMin = [s \in Sessions |-> 0]
    /\ sent = [s \in Sessions |-> FALSE]
    /\ nsent = [s \in Sessions |-> 0]
    /\ wake = [s \in Sessions |-> 0]
    /\ ret = [s \in Sessions |-> "none"]
    /\ nrecv = [s \in Sessions |-> 0]
    /\ nupd = [s \in Sessions |-> 0]
    /\ servePc = "serve"
    /\ restartCount = 0
    /\ lastCrashTime = 0
    /\ now = 0
    /\ ncrash = 0

\* The AllocateRequests kubelet sends while the watcher and a session run.
InterleavedRequests ==
    { <<[DevicesIDs |-> <<"0">>]>>,
      <<[DevicesIDs |-> <<"2", "1">>], [DevicesIDs |-> <<>>]>> }

\* The calls of the unary RPCs kubelet makes while the watcher and a session
\* run.
InterleavedCalls ==
    {Called("Allocate", reqs) : reqs \in InterleavedRequests}
        \cup {Called(name, <<>>) : name \in {"GetDevicePluginOptions",
                  "GetPreferredAllocation", "PreStartContainer"}}

\* The plugin with one streaming session and the unary RPCs.
NextRpc ==
    \/ RunAndWatch(MaxEventsRpc)
    \/ WatchError
    \/ Session(1)
    \/ \E c \in InterleavedCalls : RpcCall(c.name, c.req)
    \/ GetDevicePluginOptions
    \/ GetPreferredAllocation
    \/ Allocate
    \/ PreStartContainer

SpecRpc == Init /\ [][NextRpc]_vars

\* The serve loop alone, its crashes and the clock: no unary RPC is called.
InitServe == InitServing /\ rpc = NoRpc

NextServe ==
    \/ ServeReturnsNil
    \/ ServeCrash
    \/ Tick

SpecServe == InitServe /\ [][NextServe]_vars

\* The unary RPCs alone: one call, of any RPC and with any AllocateRequest
\* of at most MaxContainers containers and MaxDeviceIDs ids each, has
\* arrived while Serve runs, and its handler answers it.
InitAllocate == InitServing /\ rpc \in UnaryCalls

NextAllocate ==
    \/ GetDevicePluginOptions
    \/ GetPreferredAllocation
    \/ Allocate
    \/ PreStartContainer

SpecAllocate == InitAllocate /\ [][NextAllocate]_vars

----------------------------------------------------------------------------
\* The properties checked.

\* The ids the device plugin API shows for devices 0, 1, 2, ...
ExpectedIDs == <<"0", "1", "2", "3", "4", "5", "6", "7", "8", "9">>

\* The health of device i when the watermark is w.
HealthAt(i, w) == IF i < w THEN Unhealthy ELSE Healthy

\* The registry of N devices whose first w are Unhealthy.
RegistryAt(w) ==
    [i \in Indices |-> [ID |-> ExpectedIDs[i + 1], Health |-> HealthAt(i, w)]]

\* devs with the health of device k set to h, device by device.
WithHealth(devs, k, h) ==
    [i \in Indices |-> IF i = k THEN [ID |-> devs[i].ID, Health |-> h]
                       ELSE devs[i]]

\* The watcher is not between the two writes of an event.
BetweenEvents == wpc \in {"off", "select", "notify"}

\* C1: in every state after initialisation the watermark is in [0, N] and
\* device i is Unhealthy exactly when i is below the watermark.
C1_WatermarkMatchesHealth ==
    (runPc # "start" /\ BetweenEvents) =>
        /\ nextDevice \in 0 .. TotalDevicesCount
        /\ \A i \in Indices : devices[i].Health = HealthAt(i, nextDevice)

\* C2: initialisation from a directory of c entries builds devices "0".."N-1",
\* sets the watermark to min(c, N) and marks exactly the devices below it
\* Unhealthy, also when c > N.
C2_InitialisationClamps ==
    runPc = "listed" =>
        /\ nextDevice = Min(dirLen, TotalDevicesCount)
        /\ devices = RegistryAt(Min(dirLen, TotalDevicesCount))

\* The event in hand is a create at watermark N or a remove at watermark 0.
IgnoredEvent ==
    \/ IsCreate(ev) /\ pre.next = TotalDevicesCount
    \/ IsRemove(ev) /\ pre.next = 0

\* C3: a create event at watermark N and a remove event at watermark 0
\* leave the watermark and the devices unchanged and emit no notification.
C3_IgnoredEventIsSilent ==
    IgnoredEvent =>
        /\ nextDevice = pre.next
        /\ devices = pre.devices
        /\ wpc # "notify"

\* The watcher has finished the writes of the event in hand, or died in them.
EventHandled == ev # {} /\ wpc \in {"notify", "panicked"}

\* C4: an accepted event changes exactly one device and moves the watermark
\* by one: a create at w < N sets device w Unhealthy and the watermark to
\* w+1, a remove at w > 0 sets device w-1 Healthy and the watermark to w-1,
\* and the event then emits its notification.
C4_AcceptedEventMovesOne ==
    EventHandled =>
        /\ (IsCreate(ev) /\ pre.next < TotalDevicesCount) =>
              /\ devices = WithHealth(pre.devices, pre.next, Unhealthy)
              /\ nextDevice = pre.next + 1
              /\ wpc = "notify"
        /\ (IsRemove(ev) /\ pre.next > 0) =>
              /\ devices = WithHealth(pre.devices, pre.next - 1, Healthy)
              /\ nextDevice = pre.next - 1
              /\ wpc = "notify"

\* The events taken so far are K creates followed by K removes, all handled.
CreatesThenRemoves == shape.ok /\ shape.ups = shape.downs /\ applied = nev

\* The registry is as listDevice left it.
RegistryRestored == nextDevice = reg0.next /\ devices = reg0.devices

\* C5 as claimed: K creates followed by K removes return the registry to
\* its initial state, from every initial state and for every K.
C5_CreatesThenRemovesRestore ==
    (runPc # "start" /\ CreatesThenRemoves) => RegistryRestored

\* C5 as amended: K creates followed by K removes return the registry to
\* its initial state when the initial watermark w has w + K <= N.
C5_RestoreWithinCapacity ==
    (runPc # "start" /\ CreatesThenRemoves
        /\ reg0.next + shape.ups <= TotalDevicesCount) => RegistryRestored

\* Two creates and two removes were handled from a watermark with room.
C5_Witness ==
    /\ CreatesThenRemoves /\ shape.ups = 2
    /\ reg0.next + shape.ups <= TotalDevicesCount
    /\ wpc = "select"

\* A message of exactly the N devices "0".."N-1", each with a health.
IsFullSnapshot(m) ==
    /\ Len(m) = TotalDevicesCount
    /\ \A i \in Indices :
          /\ m[i + 1].ID = ExpectedIDs[i + 1]
          /\ m[i + 1].Health \in {Healthy, Unhealthy}

\* buf[s] is the first message session s sent.
FirstMessageSent(s) == sent[s] /\ nsent[s] = 1

\* C6: the first message a session sends is a full snapshot of the N
\* devices of the initialised registry, whatever the watcher is doing, and
\* the session sends it before it waits on the notifier.
C6_FirstMessageIsFullSnapshot ==
    \A s \in Sessions :
        /\ spc[s] \in {"waiting", "send_upd"} => nsent[s] >= 1
        /\ FirstMessageSent(s) => IsFullSnapshot(buf[s])

\* A first message whose reads began before the writes of the event in
\* hand were complete, sent while the watcher is blocked on s.notify.
C6_Witness ==
    \E s \in Sessions :
        /\ FirstMessageSent(s) /\ spc[s] = "waiting"
        /\ wpc = "notify" /\ bufMin[s] < applied

\* C7: every device of an update snapshot is read after the writes of the
\* event that woke the session (and of every earlier event) were complete.
C7_UpdateSnapshotNotStale ==
    \A s \in Sessions :
        (wake[s] > 0 /\ Len(buf[s]) > 0 /\ spc[s] \in {"send_upd", "waiting"})
            => bufMin[s] >= wake[s]

\* A session has sent an update snapshot after a second notification.
C7_Witness ==
    \E s \in Sessions :
        /\ spc[s] = "waiting" /\ sent[s] /\ nsent[s] >= 2 /\ wake[s] >= 2
        /\ \A i \in Indices : buf[s][i + 1] = devices[i]

\* The latest Send of session s is over and returned an error.
SendFailed(s) ==
    /\ Len(buf[s]) = TotalDevicesCount
    /\ spc[s] \notin {"send_init", "send_upd"}
    /\ ~sent[s]

\* C8: a failed Send, of the initial snapshot or of an update, makes the
\* session return an error; it does not wait on the notifier again.
C8_FailedSendEndsSession ==
    \A s \in Sessions :
        SendFailed(s) => (spc[s] = "returned" /\ ret[s] = "err")

C10_NoRestartAboveFive ==
    servePc = "serve" => restartCount <= MaxRestartCount

\* Serve has just returned an error, elapsed seconds after the last crash.
ServeFailed == ncrash' = ncrash + 1

\* C11: a Serve failure more than one hour after the previous crash sets the
\* restart counter to exactly 1, whatever the counter was, and Serve is
\* restarted; a failure within the hour that restarts Serve adds exactly 1.
C11_LateCrashResetsCounter ==
    [][ServeFailed =>
          IF now - lastCrashTime > CrashWindowSeconds
          THEN restartCount' = 1 /\ servePc' = "serve"
          ELSE servePc' = "serve" => restartCount' = restartCount + 1]_vars

\* The ids of a container request separated by commas, from the first on.
RECURSIVE CommaSeparated(_)
CommaSeparated(ids) ==
    IF Len(ids) = 0 THEN ""
    ELSE IF Len(ids) = 1 THEN Head(ids)
    ELSE Head(ids) \o "," \o CommaSeparated(Tail(ids))

\* C12: Allocate returns no error and one container response for each
\* container request, in the order of the requests; each response has the
\* one environment variable MULTUS_NICS, whose value is the ids of that
\* request joined with commas in their order.
C12_AllocateJoinsIds ==
    (rpc.name = "Allocate" /\ rpc.err # "pending") =>
        /\ rpc.err = "nil"
        /\ Len(rpc.resp.ContainerResponses) = Len(rpc.req)
        /\ \A k \in 1 .. Len(rpc.req) :
              /\ DOMAIN rpc.resp.ContainerResponses[k].Envs = {"MULTUS_NICS"}
              /\ rpc.resp.ContainerResponses[k].Envs.MULTUS_NICS
                    = CommaSeparated(rpc.req[k].DevicesIDs)

\* Allocate answered a request of two containers with different ids, two
\* for the first.
C12_Witness ==
    /\ rpc.name = "Allocate" /\ rpc.err = "nil" /\ Len(rpc.req) = 2
    /\ Len(rpc.req[1].DevicesIDs) = 2
    /\ rpc.req[1].DevicesIDs[1] # rpc.req[1].DevicesIDs[2]
    /\ rpc.req[1] # rpc.req[2]
    /\ rpc.resp.ContainerResponses[1].Envs.MULTUS_NICS = "1,0"

\* The loop goroutine has left its for loop.
LoopOver == wpc = "done_send"

\* C13: once w.Events and w.Errors are closed, and once s.ctx is cancelled,
\* the watcher's loop eventually exits, for as long as the process runs.
C13_LoopEndsOnCloseOrCancel ==
    ((cancelled \/ wmain = "err") /\ wpc # "off") ~> (LoopOver \/ proc # "up")

\* The loop's select has just taken an error from w.Errors.
ErrorLogged == wcase' = "error" /\ wcase # "error"

\* C14: an error delivered by w.Errors does not end the loop, changes
\* neither the watermark nor any device, and sends no notification; the
\* watcher is back at its select, where it takes the later events.
C14_ErrorKeepsLoopRunning ==
    [][ErrorLogged =>
          /\ wpc' = "select" /\ proc' = "up"
          /\ UNCHANGED <<devices, nextDevice, offered, nrecv, nev,
                         applied>>]_vars

\* An error was logged after two events were handled, and the watcher can
\* take the next event.
C14_Witness ==
    /\ wcase = "error" /\ nev = 2 /\ applied = 2 /\ nextDevice = reg0.next + 2
    /\ ENABLED WatchEvent({"Remove"})

\* The sum of f over the set S.
RECURSIVE SumOver(_, _)
SumOver(f, S) ==
    IF S = {} THEN 0
    ELSE LET x == CHOOSE y \in S : TRUE IN f[x] + SumOver(f, S \ {x})

\* Number of notifications the sessions received.
Received == SumOver(nrecv, Sessions)

\* Number of notifications the watcher sent that no session received yet.
InFlight == offered - Received

\* The event in hand is a create below watermark N or a remove above 0.
AcceptedEvent ==
    \/ IsCreate(ev) /\ pre.next < TotalDevicesCount
    \/ IsRemove(ev) /\ pre.next > 0

\* The registry holds both writes of the accepted event in hand.
EventApplied ==
    /\ applied = nev
    /\ IsCreate(ev) =>
          /\ devices = WithHealth(pre.devices, pre.next, Unhealthy)
          /\ nextDevice = pre.next + 1
    /\ IsRemove(ev) =>
          /\ devices = WithHealth(pre.devices, pre.next - 1, Healthy)
          /\ nextDevice = pre.next - 1

\* C15: the watcher sends the notification of an accepted event only when
\* the health write and the watermark update of that event are both
\* complete, and it takes the next event only when a session has received
\* that notification.
C15_NotifyAfterWritesBeforeNextEvent ==
    [][/\ (offered' = offered + 1 /\ AcceptedEvent') => EventApplied'
       /\ nev' = nev + 1 => InFlight = 0]_vars

\* The watcher is sending the notification of a second accepted event; the
\* first was received.
C15_Witness ==
    /\ wpc = "notify" /\ AcceptedEvent /\ EventApplied
    /\ nev = 2 /\ offered = 2 /\ Received = 1 /\ proc = "up"

\* C16: while no session receives, the watcher applies at most one accepted
\* event and then stays at the send on s.notify: the registry does not
\* change while a notification is unreceived, at most one is unreceived, and
\* the watcher leaves the send only in the step in which a session receives.
C16_WatcherBlocksUntilReceive ==
    [][/\ InFlight' <= 1
       /\ InFlight > 0 => UNCHANGED <<devices, nextDevice>>
       /\ (InFlight > 0 /\ wpc' # wpc) => Received' = Received + 1]_vars

\* The watcher is at the send for an accepted event, a session has returned
\* and no other session runs: no session will receive.
C16_Witness ==
    /\ wpc = "notify" /\ InFlight = 1 /\ AcceptedEvent /\ EventApplied
    /\ \E s \in Sessions : spc[s] = "returned"
    /\ \A s \in Sessions : spc[s] \in {"none", "returned"}
    /\ proc = "up"

\* The healths of message m are Unhealthy up to some index and Healthy from
\* there on.
UnhealthyThenHealthy(m) ==
    \A i, j \in 1 .. Len(m) :
        (i < j /\ m[j].Health = Unhealthy) => m[i].Health = Unhealthy

\* C17: every snapshot a session sent, the initial one or an update, holds
\* exactly the N devices "0".."N-1" in order, and its healths are a run of
\* Unhealthy followed by a run of Healthy, whatever the watcher wrote while
\* the snapshot was read.
C17_SnapshotIsConsistent ==
    \A s \in Sessions :
        sent[s] => (IsFullSnapshot(buf[s]) /\ UnhealthyThenHealthy(buf[s]))

\* An RPC made a step: a unary RPC was called or answered, or a ListAndWatch
\* session moved.
RpcStep == rpc' # rpc \/ sessVars' # sessVars

\* The watcher made a step of an event: it took the event or completed its
\* writes.
WatcherStep == nev' = nev + 1 \/ applied' # applied

\* C18: after initialisation only the watcher writes the registry: no step
\* of GetDevicePluginOptions, GetPreferredAllocation, ListAndWatch, Allocate
\* or PreStartContainer changes the watermark or the health, the id or the
\* number of the devices, and every change of them is a step of the watcher.
C18_OnlyWatcherWritesRegistry ==
    [][/\ RpcStep => UNCHANGED <<devices, nextDevice>>
       /\ (runPc # "start" /\ <<devices, nextDevice>>' # <<devices, nextDevice>>)
             => (WatcherStep /\ ~RpcStep)]_vars

\* Allocate answered a request for device "0" after the watcher made the
\* two devices above the initial watermark Unhealthy and the session sent
\* its updates.
C18_Witness ==
    /\ rpc.name = "Allocate" /\ rpc.err = "nil" /\ Len(rpc.req) = 1
    /\ reg0.next = 0 /\ nextDevice = 2 /\ devices = RegistryAt(2)
    /\ nsent[1] = 3 /\ spc[1] = "waiting"

\* Each notification the watcher sent was received by one session, but for
\* the one it is sending now.
ReceivedOnce == Received = offered - (IF wpc = "notify" THEN 1 ELSE 0)

\* 1 while session s is in the Send of an update, else 0.
InUpdateSend(s) == IF spc[s] = "send_upd" THEN 1 ELSE 0

\* C19 as claimed: each notification is received by exactly one session
\* and makes that session send exactly one update snapshot, also with
\* several sessions waiting.
C19_NotificationSendsOneSnapshot ==
    /\ ReceivedOnce
    /\ \A s \in Sessions :
          nrecv[s] > 0 => nsent[s] = 1 + nrecv[s] - InUpdateSend(s)

\* C19 as amended: each notification is received by exactly one session
\* and makes that session call Send for an update snapshot exactly once;
\* the call sends one snapshot, or none when it fails.
C19_NotificationCausesOneSend ==
    /\ ReceivedOnce
    /\ \A s \in Sessions :
          /\ nupd[s] = nrecv[s] - InUpdateSend(s)
          /\ nsent[s] <= 1 + nupd[s]

\* Two notifications were offered while both sessions waited; each session
\* received one and sent one update snapshot.
C19_Witness ==
    /\ offered = 2 /\ wpc = "select"
    /\ \A s \in Sessions :
          nrecv[s] = 1 /\ nupd[s] = 1 /\ nsent[s] = 2 /\ spc[s] = "waiting"

\* Every Send of session s succeeded so far.
NoSendFailed(s) ==
    /\ ret[s] # "err"
    /\ nsent[s] = (IF spc[s] \in {"none", "send_init"} THEN 0 ELSE 1) + nupd[s]

\* There is not, or no longer, one session that was never cancelled and
\* whose Sends all succeeded.
NotSteady ==
    \/ cancelled
    \/ \A s \in Sessions : spc[s] = "none"
    \/ \E s \in Sessions : ~NoSendFailed(s)

\* The watcher has taken an event and is not done with it.
EventInHand == applied < nev \/ wpc = "notify"

\* The watcher is done with every event it took and is back at its select.
EventsProcessed == applied = nev /\ wpc = "select"

\* The latest message of a session was sent and equals the registry.
SnapshotCurrent ==
    \E s \in Sessions :
        /\ sent[s] /\ Len(buf[s]) = TotalDevicesCount
        /\ \A i \in Indices : buf[s][i + 1] = devices[i]

\* C20: with one session that is never cancelled and whose Sends all
\* succeed, under fair scheduling every event the watcher takes is
\* eventually processed, and once the events stop the last snapshot the
\* session sent equals the registry from then on.
C20_EventsProcessedSnapshotCurrent ==
    /\ EventInHand ~> (EventsProcessed \/ NotSteady)
    /\ <>[](SnapshotCurrent \/ NotSteady)

====
